---- MODULE Spec2Model ----
(***************************************************************************)
(* A model of the sales dashboard: the ingestion path (clean_money,        *)
(* load_planning_main, build_rows), the ledger store (save_ledger and the  *)
(* replace-day delete of log_sales) and the read side (calculate_kpis,     *)
(* day_wise_performance, mtd_chart, asin_target_vs_actual,                 *)
(* validation_summary).                                                    *)
(*                                                                         *)
(* Text is a tuple of one-character strings, so that str.upper, str.strip, *)
(* str.replace and float() are computed and not assumed.  Money is an      *)
(* integer number of units, one paisa being 59 units: a gross amount is a  *)
(* whole number of paise, and gross / 1.18 = gross * 50 / 59 is then a     *)
(* whole number of units, so the arithmetic of the model is exact.         *)
(***************************************************************************)
EXTENDS Integers, Sequences, FiniteSets, TLC

VARIABLES
    ledger,     \* the ledger table: a sequence of rows, in insertion order
    planning,   \* the planning workbooks on disk: month -> workbook
    last,       \* the most recent log_sales call: its form fields, and the plan it saw
    lastWrite,  \* history: natural key -> the values of the most recent write of it
    msg,        \* the message log_sales rendered
    nUploads,   \* number of log_sales calls so far
    nEdits,     \* number of changes to the planning workbooks so far
    out         \* the result of the most recent read-side call

vars == <<ledger, planning, last, lastWrite, msg, nUploads, nEdits, out>>

-----------------------------------------------------------------------------
(* Bounds of the model *)

MaxMonth == 2

MaxDay == 2

MaxUploads == 3

MaxEdits == 1

-----------------------------------------------------------------------------
(* Text *)

Lowers == <<"a","b","c","d","e","f","g","h","i","j","k","l","m",
            "n","o","p","q","r","s","t","u","v","w","x","y","z">>

Uppers == <<"A","B","C","D","E","F","G","H","I","J","K","L","M",
            "N","O","P","Q","R","S","T","U","V","W","X","Y","Z">>

Digits == <<"0","1","2","3","4","5","6","7","8","9">>

IsSpace(c) == c \in {" ", "\t", "\n"}

IsDigit(c) == c \in {"0","1","2","3","4","5","6","7","8","9"}

DigitVal(c) == (CHOOSE i \in 1..10 : Digits[i] = c) - 1

UpperMap == [c \in {Lowers[i] : i \in 1..26} |-> Uppers[CHOOSE i \in 1..26 : Lowers[i] = c]]

LowerMap == [c \in {Uppers[i] : i \in 1..26} |-> Lowers[CHOOSE i \in 1..26 : Uppers[i] = c]]

UpperChar(c) == IF c \in DOMAIN UpperMap THEN UpperMap[c] ELSE c

LowerChar(c) == IF c \in DOMAIN LowerMap THEN LowerMap[c] ELSE c

\* str.upper() and str.lower()
Upper(s) == [i \in 1..Len(s) |-> UpperChar(s[i])]

Lower(s) == [i \in 1..Len(s) |-> LowerChar(s[i])]

\* str.replace(c, "") for a one-character c
RemoveChar(s, c) == SelectSeq(s, LAMBDA x : x # c)

IsPrefix(p, s) == Len(p) <= Len(s) /\ SubSeq(s, 1, Len(p)) = p

\* str.replace(w, "") for a non-empty word w: leftmost occurrences, left to right
RECURSIVE RemoveWord(_, _)
RemoveWord(s, w) ==
    IF s = <<>> THEN <<>>
    ELSE IF IsPrefix(w, s) THEN RemoveWord(SubSeq(s, Len(w) + 1, Len(s)), w)
    ELSE <<Head(s)>> \o RemoveWord(Tail(s), w)

RECURSIVE LStrip(_)
LStrip(s) ==
    IF s # <<>> /\ IsSpace(Head(s)) THEN LStrip(Tail(s)) ELSE s

RECURSIVE RStrip(_)
RStrip(s) ==
    IF s # <<>> /\ IsSpace(s[Len(s)]) THEN RStrip(SubSeq(s, 1, Len(s) - 1)) ELSE s

\* str.strip()
Strip(s) == RStrip(LStrip(s))

\* A missing cell (NaN / None) of a table
NA == <<"<NA>">>

\* str(x) of a cell: a missing cell prints as "nan"
Str(x) == IF x = NA THEN <<"n","a","n">> ELSE x

\* norm(c): the canonical key of a column header ("<BOM>" stands for U+FEFF)
norm(c) ==
    Strip(RemoveChar(RemoveChar(RemoveChar(RemoveChar(RemoveChar(RemoveChar(
        Lower(Str(c)), "<BOM>"), "("), ")"), "-"), "_"), " "))

-----------------------------------------------------------------------------
(* Money *)

GST_RATE_PCT == 18

\* The float a numeral denotes, in units (59 to the paisa), for numerals of at
\* most two decimals: digits, an optional point, digits.
RECURSIVE DigitsValue(_)
DigitsValue(s) ==
    IF s = <<>> THEN 0 ELSE 10 * DigitsValue(SubSeq(s, 1, Len(s) - 1)) + DigitVal(s[Len(s)])

AllDigits(s) == \A i \in 1..Len(s) : IsDigit(s[i])

PointAt(s) == IF \E i \in 1..Len(s) : s[i] = "." 
              THEN CHOOSE i \in 1..Len(s) : s[i] = "." /\ \A j \in 1..(i-1) : s[j] # "."
              ELSE 0

IntPart(s) == IF PointAt(s) = 0 THEN s ELSE SubSeq(s, 1, PointAt(s) - 1)

FracPart(s) == IF PointAt(s) = 0 THEN <<>> ELSE SubSeq(s, PointAt(s) + 1, Len(s))

\* float() accepts an unsigned numeral iff it has a digit and nothing but
\* digits around at most one point
IsNumeral(s) ==
    /\ AllDigits(IntPart(s))
    /\ AllDigits(FracPart(s))
    /\ Len(IntPart(s)) + Len(FracPart(s)) > 0

NumeralPaise(s) ==
    100 * DigitsValue(IntPart(s))
    + (IF Len(FracPart(s)) = 0 THEN 0
       ELSE IF Len(FracPart(s)) = 1 THEN 10 * DigitsValue(FracPart(s))
       ELSE DigitsValue(SubSeq(FracPart(s), 1, 2)))

Unsigned(s) == IF s # <<>> /\ Head(s) \in {"+", "-"} THEN Tail(s) ELSE s

\* float(s) raises ValueError
FloatRaises(s) == ~IsNumeral(Unsigned(Strip(s)))

\* float(s): the value in units, where it does not raise
Float(s) ==
    LET t == Strip(s) IN
    IF FloatRaises(s) THEN 0
    ELSE IF t[1] = "-" THEN 0 - 59 * NumeralPaise(Unsigned(t))
    ELSE 59 * NumeralPaise(Unsigned(t))

\* the text clean_money hands to float()
MoneyText(x) ==
    Strip(RemoveWord(RemoveChar(RemoveChar(Str(x), "₹"), ","), <<"I","N","R">>))

\* clean_money(x) raises ValueError
clean_money_raises(x) == x # NA /\ FloatRaises(MoneyText(x))

\* clean_money(x), where it does not raise
clean_money(x) == IF x = NA THEN 0 ELSE Float(MoneyText(x))

\* round(v, 1) of an amount in units: to the nearest tenth of a rupee (590
\* units), halves to the even tenth
Round1(v) ==
    LET q == v \div 590
        r == v % 590
    IN  IF 2 * r < 590 THEN 590 * q
        ELSE IF 2 * r > 590 THEN 590 * (q + 1)
        ELSE IF q % 2 = 0 THEN 590 * q ELSE 590 * (q + 1)

-----------------------------------------------------------------------------
(* Dates: <<month, day>> of the one modelled year *)

Months == 1..MaxMonth

Days == 1..MaxDay

Dates == Months \X Days

NaT == <<0, 0>>

DateLE(a, b) == a[1] < b[1] \/ (a[1] = b[1] /\ a[2] <= b[2])

MonthAbbr == << <<"J","a","n">>, <<"F","e","b">>, <<"M","a","r">>, <<"A","p","r">>,
                <<"M","a","y">>, <<"J","u","n">>, <<"J","u","l">>, <<"A","u","g">>,
                <<"S","e","p">>, <<"O","c","t">>, <<"N","o","v">>, <<"D","e","c">> >>

TwoDigits(n) == <<Digits[(n \div 10) + 1], Digits[(n % 10) + 1]>>

\* the text of a date as the upload form sends it: "MM-DD"
DateText(d) == TwoDigits(d[1]) \o <<"-">> \o TwoDigits(d[2])

\* pd.to_datetime(text, errors="coerce"): the date, or NaT
to_datetime(text) ==
    IF /\ Len(text) = 5
       /\ text[3] = "-"
       /\ AllDigits(SubSeq(text, 1, 2))
       /\ AllDigits(SubSeq(text, 4, 5))
       /\ DigitsValue(SubSeq(text, 1, 2)) \in 1..12
       /\ DigitsValue(SubSeq(text, 4, 5)) \in 1..31
    THEN <<DigitsValue(SubSeq(text, 1, 2)), DigitsValue(SubSeq(text, 4, 5))>>
    ELSE NaT

-----------------------------------------------------------------------------
(* Tables: a DataFrame is its column names and its rows of cells *)

empty_df == [cols |-> <<>>, rows |-> <<>>]

\* The one element of a singleton: Pick({e(x) : x \in {v}}) is e(v) with v
\* computed once, as a local variable of the code is
Pick(S) == CHOOSE x \in S : TRUE

IsEmpty(df) == df.rows = <<>> \/ df.cols = <<>>

HasCol(df, name) == \E i \in 1..Len(df.cols) : df.cols[i] = name

ColIdx(df, name) == CHOOSE i \in 1..Len(df.cols) :
                        df.cols[i] = name /\ \A j \in 1..(i-1) : df.cols[j] # name

Cell(df, r, name) == df.rows[r][ColIdx(df, name)]

RECURSIVE SelectSeq2(_, _, _)
\* the subsequence of s at the indices i with keep[i]
SelectSeq2(s, keep, i) ==
    IF i > Len(s) THEN <<>>
    ELSE (IF keep[i] THEN <<s[i]>> ELSE <<>>) \o SelectSeq2(s, keep, i + 1)

NoFile == [filename |-> "", lines |-> <<>>]

\* load_file(source, skiprows) of an uploaded file: a file is its extension
\* and its lines of cells; the line after the skipped ones is the header
load_file(source, skiprows) ==
    IF source.filename \notin {"csv", "txt", "xlsx", "xls"} THEN empty_df
    ELSE IF Len(source.lines) < skiprows + 1 THEN empty_df
    ELSE [cols |-> source.lines[skiprows + 1],
          rows |-> SubSeq(source.lines, skiprows + 2, Len(source.lines))]

\* a planning workbook that does not exist
NoWorkbook == [exists |-> FALSE, Main |-> empty_df, Category |-> empty_df]

\* load_file(path, sheet_name) of a planning workbook
load_sheet(wb, sheet_name) ==
    IF ~wb.exists THEN empty_df
    ELSE IF sheet_name = "Main" THEN wb.Main ELSE wb.Category

NormCols(df) == [df EXCEPT !.cols = [i \in 1..Len(df.cols) |-> norm(df.cols[i])]]

\* df[name] = df[name].astype(str).str.upper().str.strip()
UpperStripCol(df, name) ==
    [df EXCEPT !.rows = [r \in 1..Len(df.rows) |->
        [df.rows[r] EXCEPT ![ColIdx(df, name)] = Strip(Upper(Str(@)))]]]

asin == <<"a","s","i","n">>

\* load_planning_main(ref_date), the workbooks being `plans`
load_planning_main(plans, ref_date) ==
    IF ref_date[1] \notin DOMAIN plans \/ ~plans[ref_date[1]].exists THEN empty_df
    ELSE Pick({ IF IsEmpty(df) THEN empty_df
                ELSE IF ~HasCol(df, asin) THEN empty_df
                ELSE UpperStripCol(df, asin)
                : df \in {NormCols(load_sheet(plans[ref_date[1]], "Main"))} })

-----------------------------------------------------------------------------
(* Core ingestion *)

parentasin == <<"p","a","r","e","n","t","a","s","i","n">>

orderedproductsales ==
    <<"o","r","d","e","r","e","d","p","r","o","d","u","c","t","s","a","l","e","s">>

orderedrevenue == <<"o","r","d","e","r","e","d","r","e","v","e","n","u","e">>

\* the column build_rows takes the ASIN from: parent ASIN before ASIN; <<>> if neither
AsinColumn(df) ==
    IF HasCol(df, parentasin) THEN parentasin
    ELSE IF HasCol(df, asin) THEN asin
    ELSE <<>>

\* df["ASIN"] = df["ASIN"].astype(str).str.upper().str.strip(), row by row
AsinOf(df, r) == Strip(Upper(Str(Cell(df, r, AsinColumn(df)))))

\* allowed_asins = set(plan_main["asin"])
AllowedAsins(plan_main) ==
    {Cell(plan_main, r, asin) : r \in 1..Len(plan_main.rows)}

\* InPlanRows without the plan filter: every row of the export is kept
InPlanRowsUnfiltered(df, allowed_asins) == [r \in 1..Len(df.rows) |-> r]

\* df = df[df["ASIN"].isin(allowed_asins)]: the indices of the rows kept, in order
InPlanRows(df, allowed_asins) ==
    SelectSeq2([r \in 1..Len(df.rows) |-> r],
               [r \in 1..Len(df.rows) |-> AsinOf(df, r) \in allowed_asins], 1)

\* the column the gross revenue is read from
RevenueColumn(is_vendor) ==
    IF is_vendor THEN orderedrevenue ELSE orderedproductsales

\* NetSales with the tax removed from vendor revenue too
NetSalesTaxOnAll(sales, is_vendor) == (sales * 100) \div (100 + GST_RATE_PCT)

\* net_sales of a gross amount: sales / (1 + GST_RATE) for a seller account,
\* sales for the vendor account
NetSales(sales, is_vendor) ==
    IF is_vendor THEN sales ELSE (sales * 100) \div (100 + GST_RATE_PCT)

NoRows == [raised |-> FALSE, rows |-> <<>>]

\* the rows of build_rows from the rows `kept` of the export df
RowsOf(df, kept, account, sales_date, is_vendor) ==
    IF kept = <<>> THEN NoRows
    ELSE IF ~HasCol(df, RevenueColumn(is_vendor)) THEN NoRows
    ELSE IF \E i \in 1..Len(kept) :
                clean_money_raises(Cell(df, kept[i], RevenueColumn(is_vendor)))
    THEN [raised |-> TRUE, rows |-> <<>>]
    ELSE [raised |-> FALSE,
          rows |-> [i \in 1..Len(kept) |->
              Pick({ [date |-> sales_date,
                      account |-> account,
                      ASIN |-> AsinOf(df, kept[i]),
                      sales |-> sales,
                      net_sales |-> NetSales(sales, is_vendor)]
                     : sales \in {clean_money(Cell(df, kept[i], RevenueColumn(is_vendor)))} })]]

\* build_rows(file, account, sales_date, is_vendor), the workbooks being `plans`:
\* the rows returned, or raised when clean_money raises on a kept row
build_rows(plans, file, account, sales_date, is_vendor) ==
    Pick({ IF IsEmpty(df) THEN NoRows
           ELSE IF AsinColumn(df) = <<>> THEN NoRows
           ELSE IF IsEmpty(plan_main) THEN NoRows
           ELSE Pick({ RowsOf(df, kept, account, sales_date, is_vendor)
                       : kept \in {InPlanRows(df, AllowedAsins(plan_main))} })
           : df \in {NormCols(load_file(file, IF is_vendor THEN 1 ELSE 0))},
             plan_main \in {load_planning_main(plans, sales_date)} })

-----------------------------------------------------------------------------
(* Ledger store *)

Key(r) == <<r.date, r.account, r.ASIN>>

HasKey(l, k) == \E i \in 1..Len(l) : Key(l[i]) = k

\* Upsert with ON CONFLICT ... DO NOTHING: the first write of a key would win
UpsertKeepsFirst(l, r) == IF HasKey(l, Key(r)) THEN l ELSE Append(l, r)

\* Upsert without the ON CONFLICT clause on a table without the UNIQUE constraint
UpsertAlwaysInserts(l, r) == Append(l, r)

\* INSERT ... ON CONFLICT (date, account, asin) DO UPDATE SET sales, net_sales
Upsert(l, r) ==
    IF HasKey(l, Key(r))
    THEN [i \in 1..Len(l) |->
            IF Key(l[i]) = Key(r)
            THEN [l[i] EXCEPT !.sales = r.sales, !.net_sales = r.net_sales]
            ELSE l[i]]
    ELSE Append(l, r)

\* save_ledger(rows): one upsert per row, in the order of the rows
RECURSIVE save_ledger(_, _)
save_ledger(l, rows) ==
    IF rows = <<>> THEN l
    ELSE Pick({ save_ledger(l2, rows2)
                : l2 \in {Upsert(l, Head(rows))}, rows2 \in {Tail(rows)} })

ADMIN_UPLOAD_KEY == <<"1","2","3","4">>

\* uploads with the vendor slot saved under the account of the first slot
uploadsSharedAccount ==
    << [account |-> "Nexlev", is_vendor |-> FALSE],
       [account |-> "Cambium Retail", is_vendor |-> FALSE],
       [account |-> "Viomi By Cambium", is_vendor |-> FALSE],
       [account |-> "Nexlev", is_vendor |-> TRUE] >>

\* the four upload slots of log_sales: aa_file, cr_file, vi_file, vc_file
uploads ==
    << [account |-> "Nexlev", is_vendor |-> FALSE],
       [account |-> "Cambium Retail", is_vendor |-> FALSE],
       [account |-> "Viomi By Cambium", is_vendor |-> FALSE],
       [account |-> "Vendor Central", is_vendor |-> TRUE] >>

Accounts == {uploads[i].account : i \in 1..Len(uploads)}

\* replace_day in ("1", "true", "True", "on")
ReplaceDayOn(replace_day) == replace_day \in {"1", "true", "True", "on"}

\* DeleteDay with the date condition lost: DELETE FROM ledger WHERE account = :a
DeleteDayAnyDate(l, d) == SelectSeq(l, LAMBDA r : r.account \notin Accounts)

\* DELETE FROM ledger WHERE date = :d AND account = :a, for the account of every slot
DeleteDay(l, d) ==
    SelectSeq(l, LAMBDA r : ~(r.date = d /\ r.account \in Accounts))

\* rows of build_rows for each slot; a slot without a file is skipped
BuiltRows(plans, u) ==
    [i \in 1..Len(uploads) |->
        IF u.files[i].filename = "" THEN NoRows
        ELSE build_rows(plans, u.files[i], uploads[i].account,
                        to_datetime(u.sales_date), uploads[i].is_vendor)]

\* pd.concat(all_rows)
Concat(built) == built[1].rows \o built[2].rows \o built[3].rows \o built[4].rows

FinalDf(plans, u) == Concat(BuiltRows(plans, u))

\* log_sales with the replace-day delete moved before the check of all_rows
log_sales_deletes_first(l, plans, u) ==
    IF Strip(u.upload_key) # ADMIN_UPLOAD_KEY
    THEN [ledger |-> l, msg |-> "Invalid admin upload key.", saved |-> <<>>]
    ELSE IF to_datetime(u.sales_date) = NaT
    THEN [ledger |-> l, msg |-> "Invalid sales date.", saved |-> <<>>]
    ELSE Pick({
        IF \E i \in 1..Len(uploads) : built[i].raised
        THEN [ledger |-> l, msg |-> "Unexpected server error.", saved |-> <<>>]
        ELSE IF Concat(built) = <<>>
        THEN [ledger |-> IF ReplaceDayOn(u.replace_day)
                         THEN DeleteDay(l, sales_date_parsed) ELSE l,
              msg |-> "No valid sales rows found.", saved |-> <<>>]
        ELSE [ledger |-> save_ledger(IF ReplaceDayOn(u.replace_day)
                                     THEN DeleteDay(l, sales_date_parsed)
                                     ELSE l,
                                     Concat(built)),
              msg |-> "Sales uploaded successfully.",
              saved |-> Concat(built)]
        : built \in {BuiltRows(plans, u)},
          sales_date_parsed \in {to_datetime(u.sales_date)} })

\* log_sales(upload_key, sales_date, replace_day, files): the ledger it leaves,
\* the message it renders and the rows it saved
log_sales(l, plans, u) ==
    IF Strip(u.upload_key) # ADMIN_UPLOAD_KEY
    THEN [ledger |-> l, msg |-> "Invalid admin upload key.", saved |-> <<>>]
    ELSE IF to_datetime(u.sales_date) = NaT
    THEN [ledger |-> l, msg |-> "Invalid sales date.", saved |-> <<>>]
    ELSE Pick({
        IF \E i \in 1..Len(uploads) : built[i].raised
        THEN [ledger |-> l, msg |-> "Unexpected server error.", saved |-> <<>>]
        ELSE IF Concat(built) = <<>>
        THEN [ledger |-> l, msg |-> "No valid sales rows found.", saved |-> <<>>]
        ELSE [ledger |-> save_ledger(IF ReplaceDayOn(u.replace_day)
                                     THEN DeleteDay(l, sales_date_parsed)
                                     ELSE l,
                                     Concat(built)),
              msg |-> "Sales uploaded successfully.",
              saved |-> Concat(built)]
        : built \in {BuiltRows(plans, u)},
          sales_date_parsed \in {to_datetime(u.sales_date)} })

-----------------------------------------------------------------------------
(* The exports and the planning workbooks the model draws its inputs from *)

\* a seller export: B0A, and B0C which no plan holds
SellerA ==
    [filename |-> "csv",
     lines |-> <<
        << <<"(","P","a","r","e","n","t",")"," ","A","S","I","N">>,
           <<"(","C","h","i","l","d",")"," ","A","S","I","N">>,
           <<"O","r","d","e","r","e","d"," ","P","r","o","d","u","c","t"," ","S","a","l","e","s">>,
           <<"O","r","d","e","r","e","d"," ","P","r","o","d","u","c","t"," ","S","a","l","e","s"," ","-"," ","B","2","B">> >>,
        << <<"B","0","A">>,
           <<"B","0","A","1">>,
           <<"₹","1",",","1","8","0",".","0","0">>,
           <<"₹","5","9",".","0","0">> >>,
        << <<" ","b","0","c"," ">>,
           <<"B","0","C","1">>,
           <<"2","3","6",".","0","0">>,
           <<"0">> >>
     >>]

\* a seller export: two variants of parent B0A, and B0B
SellerB ==
    [filename |-> "xlsx",
     lines |-> <<
        << <<"<BOM>","(","P","a","r","e","n","t",")"," ","A","S","I","N">>,
           <<"(","C","h","i","l","d",")"," ","A","S","I","N">>,
           <<"O","r","d","e","r","e","d"," ","P","r","o","d","u","c","t"," ","S","a","l","e","s">>,
           <<"O","r","d","e","r","e","d"," ","P","r","o","d","u","c","t"," ","S","a","l","e","s"," ","-"," ","B","2","B">> >>,
        << <<"b","0","a">>,
           <<"B","0","A","1">>,
           <<"5","9","0">>,
           <<"1","1",".","8">> >>,
        << <<"B","0","A">>,
           <<"B","0","A","2">>,
           <<"1","1",".","8","0">>,
           NA >>,
        << <<"B","0","B">>,
           <<"B","0","B","1">>,
           <<"I","N","R"," ","2",",","3","6","0">>,
           NA >>
     >>]

\* a seller export whose B0A revenue cell is no number
SellerBad ==
    [filename |-> "csv",
     lines |-> <<
        << <<"a","s","i","n">>,
           <<"o","r","d","e","r","e","d","_","p","r","o","d","u","c","t","_","s","a","l","e","s">> >>,
        << <<"B","0","A">>,
           <<"R","s",".","1","1","8">> >>,
        << <<"B","0","B">>,
           <<"1","1","8">> >>,
        << <<"B","0","C">>,
           <<"-","-">> >>
     >>]

\* a seller export without the revenue column
SellerNoRev ==
    [filename |-> "txt",
     lines |-> <<
        << <<"A","S","I","N">>,
           <<"U","n","i","t","s"," ","O","r","d","e","r","e","d">> >>,
        << <<"B","0","A">>,
           <<"3">> >>
     >>]

\* a vendor export: a banner line, then the header
VendorA ==
    [filename |-> "csv",
     lines |-> <<
        << <<"V","e","n","d","o","r"," ","S","a","l","e","s"," ","R","e","p","o","r","t">>,
           NA,
           NA,
           NA >>,
        << <<"A","S","I","N">>,
           <<"O","r","d","e","r","e","d"," ","R","e","v","e","n","u","e">>,
           <<"S","h","i","p","p","e","d"," ","R","e","v","e","n","u","e">>,
           <<"O","r","d","e","r","e","d"," ","U","n","i","t","s">> >>,
        << <<"B","0","A">>,
           <<"1",",","0","0","0",".","5","0">>,
           <<"9","0","0",".","0","0">>,
           <<"3">> >>,
        << <<" ","b","0","b">>,
           NA,
           <<"1","2",".","0","0">>,
           <<"0">> >>
     >>]

\* a file load_file does not read
Pdf ==
    [filename |-> "pdf",
     lines |-> <<
        << <<"(","P","a","r","e","n","t",")"," ","A","S","I","N">>,
           <<"(","C","h","i","l","d",")"," ","A","S","I","N">>,
           <<"O","r","d","e","r","e","d"," ","P","r","o","d","u","c","t"," ","S","a","l","e","s">>,
           <<"O","r","d","e","r","e","d"," ","P","r","o","d","u","c","t"," ","S","a","l","e","s"," ","-"," ","B","2","B">> >>,
        << <<"B","0","A">>,
           <<"B","0","A","1">>,
           <<"1","1","8">>,
           <<"0">> >>
     >>]

\* Main sheet with the January target column; B0B has a zero target
MainJan ==
    [cols |-> << <<"A","S","I","N">>,
           <<"C","a","t","e","g","o","r","y">>,
           <<"J","a","n"," ","G","o","a","l"," ","P","r","o","j","e","c","t","e","d">>,
           <<"P","e","r"," ","D","a","y"," ","G","o","a","l"," ","P","r","o","j","e","c","t","e","d">> >>,
     rows |-> <<
        << <<" ","b","0","a">>,
           <<"A","u","d","i","o">>,
           17700000,
           590236 >>,
        << <<"B","0","B">>,
           <<"C","a","b","l","e","s">>,
           0,
           0 >>
     >>]

\* Main sheet with the February target column
MainFeb ==
    [cols |-> << <<"A","S","I","N">>,
           <<"C","a","t","e","g","o","r","y">>,
           <<"F","e","b"," ","G","o","a","l"," ","P","r","o","j","e","c","t","e","d">>,
           <<"P","e","r"," ","D","a","y"," ","G","o","a","l"," ","P","r","o","j","e","c","t","e","d">> >>,
     rows |-> <<
        << <<"B","0","A">>,
           <<"A","u","d","i","o">>,
           8850000,
           295000 >>,
        << <<"b","0","b"," ">>,
           <<"C","a","b","l","e","s">>,
           4513500,
           150450 >>
     >>]

\* Main sheet without the per-day target column
MainNoPerDay ==
    [cols |-> << <<"A","S","I","N">>,
           <<"C","a","t","e","g","o","r","y">>,
           <<"J","a","n"," ","G","o","a","l"," ","P","r","o","j","e","c","t","e","d">>,
           <<"F","e","b"," ","G","o","a","l"," ","P","r","o","j","e","c","t","e","d">> >>,
     rows |-> <<
        << <<"B","0","A">>,
           <<"A","u","d","i","o">>,
           590000,
           590000 >>
     >>]

\* Main sheet without an ASIN column
MainNoAsin ==
    [cols |-> << <<"S","K","U">>,
           <<"C","a","t","e","g","o","r","y">>,
           <<"J","a","n"," ","G","o","a","l"," ","P","r","o","j","e","c","t","e","d">>,
           <<"P","e","r"," ","D","a","y"," ","G","o","a","l"," ","P","r","o","j","e","c","t","e","d">> >>,
     rows |-> <<
        << <<"B","0","A">>,
           <<"A","u","d","i","o">>,
           590000,
           59000 >>
     >>]

\* Category sheet
CategorySheet ==
    [cols |-> << <<"C","a","t","e","g","o","r","y">>,
           <<"P","e","r"," ","D","a","y"," ","G","o","a","l">> >>,
     rows |-> <<
        << <<"A","u","d","i","o">>,
           590236 >>,
        << <<"C","a","b","l","e","s">>,
           0 >>
     >>]

\* a workbook for January
WbJan ==
    [exists |-> TRUE,
     Main |-> MainJan,
     Category |-> CategorySheet]

\* a workbook for February
WbFeb ==
    [exists |-> TRUE,
     Main |-> MainFeb,
     Category |-> CategorySheet]

\* a workbook whose Main sheet lacks the per-day target
WbNoPerDay ==
    [exists |-> TRUE,
     Main |-> MainNoPerDay,
     Category |-> CategorySheet]

\* a workbook whose Main sheet lacks the ASIN column
WbNoAsin ==
    [exists |-> TRUE,
     Main |-> MainNoAsin,
     Category |-> CategorySheet]

\* Main sheet whose targets are all zero
MainZero ==
    [cols |-> << <<"A","S","I","N">>,
           <<"C","a","t","e","g","o","r","y">>,
           <<"J","a","n"," ","G","o","a","l"," ","P","r","o","j","e","c","t","e","d">>,
           <<"F","e","b"," ","G","o","a","l"," ","P","r","o","j","e","c","t","e","d">>,
           <<"P","e","r"," ","D","a","y"," ","G","o","a","l"," ","P","r","o","j","e","c","t","e","d">> >>,
     rows |-> <<
        << <<"B","0","A">>,
           <<"A","u","d","i","o">>,
           0,
           0,
           0 >>
     >>]

\* a workbook whose targets are all zero
WbZero ==
    [exists |-> TRUE,
     Main |-> MainZero,
     Category |-> CategorySheet]

Workbooks == {NoWorkbook, WbJan, WbFeb, WbNoPerDay, WbNoAsin, WbZero}

ExportFiles == {SellerA, SellerB, SellerBad, SellerNoRev, VendorA, Pdf}

\* the files of an upload, slot by slot: aa_file, cr_file, vi_file, vc_file
FileSets ==
    { <<SellerA, NoFile, NoFile, VendorA>>,
      <<SellerB, NoFile, NoFile, NoFile>> }

Key1234 == <<"1","2","3","4">>

Upload(k, d, r, f) == [upload_key |-> k, sales_date |-> d, replace_day |-> r, files |-> f]

\* the uploads: each file set on every date with and without replace-day; and,
\* on the first date, uploads with a padded key, a wrong key, a date that does
\* not parse, another spelling of the replace-day field, no file, a revenue
\* cell that is no number, and files that hold no usable rows
Uploads ==
    { Upload(Key1234, DateText(d), r, f) : d \in Dates, r \in {"None", "on"}, f \in FileSets }
    \cup { Upload(<<" ">> \o Key1234 \o <<" ">>, DateText(<<1, 1>>), "true",
                  <<SellerB, NoFile, NoFile, NoFile>>),
           Upload(<<"0","0","0","0">>, DateText(<<1, 1>>), "on",
                  <<SellerB, NoFile, NoFile, NoFile>>),
           Upload(Key1234, <<"t","o","d","a","y">>, "on",
                  <<SellerB, NoFile, NoFile, NoFile>>),
           Upload(Key1234, DateText(<<1, 1>>), "off",
                  <<SellerA, NoFile, NoFile, NoFile>>),
           Upload(Key1234, DateText(<<1, 1>>), "on",
                  <<NoFile, NoFile, NoFile, NoFile>>),
           Upload(Key1234, DateText(<<1, 1>>), "on",
                  <<NoFile, SellerBad, NoFile, VendorA>>),
           Upload(Key1234, DateText(<<1, 1>>), "on",
                  <<SellerNoRev, NoFile, Pdf, SellerA>>) }

-----------------------------------------------------------------------------
(* The upload path as a state machine *)

NoCall == [upload |-> Upload(<<>>, <<>>, "None", <<NoFile, NoFile, NoFile, NoFile>>),
           planning |-> [m \in Months |-> NoWorkbook],
           repeated |-> FALSE]

Init ==
    /\ ledger = <<>>
    /\ planning = [m \in Months |-> WbJan]
    /\ last = NoCall
    /\ lastWrite = <<>>
    /\ msg = ""
    /\ nUploads = 0
    /\ nEdits = 0
    /\ out = [op |-> "none"]

RECURSIVE RecordWrites(_, _)
\* the history after the rows are written in order: the last write of a key wins
RecordWrites(h, rows) ==
    IF rows = <<>> THEN h
    ELSE Pick({ RecordWrites(h2, rows2)
                : h2 \in {SelectSeq(h, LAMBDA w : Key(w) # Key(Head(rows)))
                          \o <<Head(rows)>>},
                  rows2 \in {Tail(rows)} })

\* POST /log-sales
LogSales(u) ==
    /\ nUploads < MaxUploads
    /\ \E res \in {log_sales(ledger, planning, u)} :
          /\ ledger' = res.ledger
          /\ msg' = res.msg
          /\ lastWrite' = RecordWrites(lastWrite, res.saved)
    /\ last' = [upload |-> u, planning |-> planning,
                 repeated |-> (u = last.upload /\ planning = last.planning)]
    /\ nUploads' = nUploads + 1
    /\ UNCHANGED <<planning, nEdits, out>>

\* the planning workbook of a month is replaced, or removed, on disk
EditPlanning(m, wb) ==
    /\ nEdits < MaxEdits
    /\ planning[m] # wb
    /\ planning' = [planning EXCEPT ![m] = wb]
    /\ nEdits' = nEdits + 1
    /\ UNCHANGED <<ledger, last, lastWrite, msg, nUploads, out>>

Next ==
    \/ \E u \in Uploads : LogSales(u)
    \/ \E m \in Months, wb \in {NoWorkbook, WbJan, WbNoPerDay} : EditPlanning(m, wb)

Spec == Init /\ [][Next]_vars

-----------------------------------------------------------------------------
(* Claims about the upload path *)

RowIn(r, l) == \E j \in 1..Len(l) : l[j] = r

Success == "Sales uploaded successfully."

B0A == <<"B","0","A">>

\* C1: after any sequence of uploads the ledger holds at most one row per
\* natural key (date, account, asin), and that row carries the sales and
\* net_sales of the most recent write of the key.
C1_OneRowPerKeyLastWriteWins ==
    /\ \A i, j \in 1..Len(ledger) : Key(ledger[i]) = Key(ledger[j]) => i = j
    /\ \A i \in 1..Len(ledger) :
          \E k \in 1..Len(lastWrite) :
              /\ Key(lastWrite[k]) = Key(ledger[i])
              /\ lastWrite[k].sales = ledger[i].sales
              /\ lastWrite[k].net_sales = ledger[i].net_sales

\* C1 witness: a second upload, without replace-day, re-ingested the key
\* (date, Nexlev, B0A) that the first row of the ledger already held with
\* 1,180.00, twice (590 and then 11.80): the row is still first, and holds 11.80
C1_Witness ==
    /\ nUploads = 2
    /\ msg = Success
    /\ ~ReplaceDayOn(last.upload.replace_day)
    /\ last.upload.files[1] = SellerB
    /\ Len(ledger) = 4
    /\ ledger[1].account = "Nexlev" /\ ledger[1].ASIN = B0A
    /\ ledger[1].sales = 59 * 1180
    /\ ledger[2].account = "Vendor Central"

\* C2: running the same upload (same form fields, same files, same plan) twice
\* in a row leaves the ledger as the first run left it.
C2_ReprocessingIdempotent ==
    [][ ( /\ nUploads' = nUploads + 1
          /\ nUploads >= 1
          /\ last'.upload = last.upload
          /\ last'.planning = last.planning )
        => ledger' = ledger ]_vars

\* C2 witness: the last upload repeated the one before it, with replace-day,
\* and saved rows, among them two for one key
C2_Witness ==
    /\ last.repeated
    /\ msg = Success
    /\ ReplaceDayOn(last.upload.replace_day)
    /\ last.upload.files[1] = SellerB
    /\ Len(ledger) = 2

\* C9: an upload without replace-day leaves every row whose key is not in the
\* uploaded batch present and unchanged; a replace-day upload leaves every row
\* of another date present and unchanged; and a row is removed only by a
\* replace-day upload for its date.
C9_RowsOnlyRemovedByReplaceDay ==
    [][ \A batch \in {FinalDf(last'.planning, last'.upload)},
           d \in {to_datetime(last'.upload.sales_date)},
           replace \in {ReplaceDayOn(last'.upload.replace_day)} :
        \A i \in 1..Len(ledger) :
          /\ (~replace /\ ~HasKey(batch, Key(ledger[i]))) => RowIn(ledger[i], ledger')
          /\ (replace /\ ledger[i].date # d) => RowIn(ledger[i], ledger')
          /\ ~HasKey(ledger', Key(ledger[i]))
             => (nUploads' = nUploads + 1 /\ replace /\ ledger[i].date = d) ]_vars

\* C9 witness: a replace-day upload has removed a row written before it (the
\* row's key is in the history and no longer in the ledger), and rows of
\* another date are still there
C9_Witness ==
    /\ msg = Success
    /\ ReplaceDayOn(last.upload.replace_day)
    /\ \E k \in 1..Len(lastWrite) :
          /\ lastWrite[k].date = to_datetime(last.upload.sales_date)
          /\ ~HasKey(ledger, Key(lastWrite[k]))
    /\ \E i \in 1..Len(ledger) : ledger[i].date # to_datetime(last.upload.sales_date)

-----------------------------------------------------------------------------
(* build_rows on its own: any export, in any slot, on any date, under any
   planning workbooks *)

InitBuild ==
    /\ ledger = <<>>
    /\ planning \in [Months -> Workbooks]
    /\ last = NoCall
    /\ lastWrite = <<>>
    /\ msg = ""
    /\ nUploads = 0
    /\ nEdits = 0
    /\ out = [op |-> "none"]

BuildRows(file, slot, sales_date) ==
    /\ out.op = "none"
    /\ out' = [op |-> "build_rows",
               file |-> file,
               account |-> uploads[slot].account,
               sales_date |-> sales_date,
               is_vendor |-> uploads[slot].is_vendor,
               result |-> build_rows(planning, file, uploads[slot].account,
                                     sales_date, uploads[slot].is_vendor)]
    /\ UNCHANGED <<ledger, planning, last, lastWrite, msg, nUploads, nEdits>>

NextBuild ==
    \E file \in ExportFiles, slot \in 1..Len(uploads), sales_date \in Dates :
        BuildRows(file, slot, sales_date)

SpecBuild == InitBuild /\ [][NextBuild]_vars

\* the ASINs of the Main sheet of a workbook, uppercased and trimmed; none if
\* the workbook is missing or its Main sheet has no ASIN column
PlanAsinsOf(wb) ==
    IF ~wb.exists THEN {}
    ELSE { Strip(Upper(Str(wb.Main.rows[r][c]))) :
             r \in 1..Len(wb.Main.rows),
             c \in {k \in 1..Len(wb.Main.cols) : norm(wb.Main.cols[k]) = asin} }

\* C3: every row build_rows returns has an ASIN of the Main plan of the month
\* of sales_date, and a month without a plan yields no rows.
C3_OnlyPlannedAsins ==
    out.op = "build_rows" =>
        /\ \A i \in 1..Len(out.result.rows) :
              out.result.rows[i].ASIN \in PlanAsinsOf(planning[out.sales_date[1]])
        /\ PlanAsinsOf(planning[out.sales_date[1]]) = {} => out.result.rows = <<>>

\* C3 witness: SellerA holds B0A (1,180.00) and B0C (236.00); under the
\* January workbook, which plans B0A and B0B, build_rows returned the one row
C3_Witness ==
    /\ out.op = "build_rows"
    /\ out.file = SellerA
    /\ ~out.is_vendor
    /\ planning[out.sales_date[1]] = WbJan
    /\ Len(out.result.rows) = 1
    /\ out.result.rows[1].ASIN = B0A

\* the header line of an export, and its data lines
HeaderOf(file, is_vendor) == file.lines[IF is_vendor THEN 2 ELSE 1]

DataLinesOf(file, is_vendor) ==
    SubSeq(file.lines, IF is_vendor THEN 3 ELSE 2, Len(file.lines))

-----------------------------------------------------------------------------
(* Read side: a ledger slice df is a sequence of ledger rows *)

perdaygoalprojected ==
    <<"p","e","r","d","a","y","g","o","a","l","p","r","o","j","e","c","t","e","d">>

goalprojected == <<"g","o","a","l","p","r","o","j","e","c","t","e","d">>

category == <<"c","a","t","e","g","o","r","y">>

\* a / b as Python computes it: den = 0 is the undefined ratio (nan or inf)
Quotient(a, b) == [num |-> a, den |-> b]

\* the number 0 where a ratio is expected
Zero == [num |-> 0, den |-> 1]

\* a / b rounded to the nearest integer, halves to even (a >= 0, b > 0)
RoundDiv(a, b) ==
    LET q == a \div b
        r == a % b
    IN  IF 2 * r < b THEN q
        ELSE IF 2 * r > b THEN q + 1
        ELSE IF q % 2 = 0 THEN q ELSE q + 1

RECURSIVE SumNetSales(_)
\* df["net_sales"].sum()
SumNetSales(df) ==
    IF df = <<>> THEN 0 ELSE Head(df).net_sales + SumNetSales(Tail(df))

RECURSIVE SumRows(_, _, _)
SumRows(plan, c, r) ==
    IF r > Len(plan.rows) THEN 0 ELSE plan.rows[r][c] + SumRows(plan, c, r + 1)

\* plan[name].sum()
SumCol(plan, name) == SumRows(plan, ColIdx(plan, name), 1)

\* df["date"].nunique()
nunique_date(df) == Cardinality({ df[i].date : i \in 1..Len(df) })

RECURSIVE SortDates(_)
\* the dates of a set in ascending order
SortDates(S) ==
    IF S = {} THEN <<>>
    ELSE Pick({ <<m>> \o SortDates(S \ {m})
                : m \in {CHOOSE d \in S : \A e \in S : DateLE(d, e)} })

\* groupby_date with each date's rows counted twice
groupby_date_doubled(df) ==
    Pick({ [i \in 1..Len(ds) |->
              [date |-> ds[i],
               net_sales |-> 2 * SumNetSales(SelectSeq(df, LAMBDA r : r.date = ds[i]))]]
           : ds \in {SortDates({ df[i].date : i \in 1..Len(df) })} })

\* df.groupby("date", as_index=False)["net_sales"].sum(): one entry per
\* distinct date, ascending
groupby_date(df) ==
    Pick({ [i \in 1..Len(ds) |->
              [date |-> ds[i],
               net_sales |-> SumNetSales(SelectSeq(df, LAMBDA r : r.date = ds[i]))]]
           : ds \in {SortDates({ df[i].date : i \in 1..Len(df) })} })

\* df[(df["date"] >= f) & (df["date"] <= t)]; no date compares with NaT
filter_by_date_range(df, f, t) ==
    SelectSeq(df, LAMBDA r : /\ f # NaT
                             /\ t # NaT
                             /\ DateLE(f, r.date)
                             /\ DateLE(r.date, t))

ZeroKpis ==
    [monthly_target |-> 0, target_till |-> 0, actual |-> 0,
     achievement |-> Zero, pace |-> Zero]

\* monthly_col = f"{month}goalprojected"
monthly_col(ref_date) == Lower(MonthAbbr[ref_date[1]]) \o goalprojected

\* the ratio of calculate_kpis without its zero-target guard
KpiRatioUnguarded(actual, target_till) == Quotient(actual, target_till)

\* actual / target_till if target_till else 0
KpiRatio(actual, target_till) ==
    IF target_till # 0 THEN Quotient(actual, target_till) ELSE Zero

\* calculate_kpis(df, ref_date), the workbooks being `plans`
calculate_kpis(df, plans, ref_date) ==
    IF df = <<>> THEN ZeroKpis
    ELSE Pick({
        IF IsEmpty(plan) THEN ZeroKpis
        ELSE IF ~HasCol(plan, monthly_col(ref_date))
                \/ ~HasCol(plan, perdaygoalprojected) THEN ZeroKpis
        ELSE Pick({ [monthly_target |-> Round1(SumCol(plan, monthly_col(ref_date))),
                     target_till |-> Round1(target_till),
                     actual |-> Round1(actual),
                     achievement |-> KpiRatio(actual, target_till),
                     pace |-> KpiRatio(actual, target_till)]
                    : target_till \in {SumCol(plan, perdaygoalprojected) * nunique_date(df)},
                      actual \in {SumNetSales(df)} })
        : plan \in {load_planning_main(plans, ref_date)} })

\* (net_sales / per_day_target).round(2), in hundredths; undefined on a zero target
Achieved(net_sales, per_day_target) ==
    IF per_day_target = 0 THEN [defined |-> FALSE, hundredths |-> 0]
    ELSE [defined |-> TRUE, hundredths |-> RoundDiv(net_sales * 100, per_day_target)]

\* day_wise_performance(df, ref_date): the records, one per date
day_wise_performance(df, plans, ref_date) ==
    IF df = <<>> THEN <<>>
    ELSE Pick({
        IF IsEmpty(plan) \/ ~HasCol(plan, perdaygoalprojected) THEN <<>>
        ELSE Pick({ [i \in 1..Len(d) |->
                       [date |-> d[i].date,
                        net_sales |-> d[i].net_sales,
                        actual |-> d[i].net_sales,
                        target |-> per_day_target,
                        achieved |-> Achieved(d[i].net_sales, per_day_target)]]
                    : per_day_target \in {SumCol(plan, perdaygoalprojected)},
                      d \in {groupby_date(df)} })
        : plan \in {load_planning_main(plans, ref_date)} })

\* strftime("%d %b")
Label(d) == TwoDigits(d[2]) \o <<" ">> \o MonthAbbr[d[1]]

NoChart == [labels |-> <<>>, actual |-> <<>>, target |-> <<>>]

\* the calendar position of a date in its month, in place of d.index + 1
CalendarStep(d, i) == d[i].date[2]

\* d.index + 1: the position of the entry in the grouped slice
IndexStep(d, i) == i

\* mtd_chart(df, ref_date)
mtd_chart(df, plans, ref_date) ==
    IF df = <<>> THEN NoChart
    ELSE Pick({
        IF IsEmpty(plan) \/ ~HasCol(plan, perdaygoalprojected) THEN NoChart
        ELSE Pick({ [labels |-> [i \in 1..Len(d) |-> Label(d[i].date)],
                     actual |-> [i \in 1..Len(d) |->
                                   Round1(SumNetSales(SubSeq(d, 1, i)))],
                     target |-> [i \in 1..Len(d) |->
                                   Round1(per_day_target * IndexStep(d, i))]]
                    : per_day_target \in {SumCol(plan, perdaygoalprojected)},
                      d \in {groupby_date(df)} })
        : plan \in {load_planning_main(plans, ref_date)} })

\* ((net_sales / period_target) * 100).round(1) as pandas computes it: in
\* tenths of a percent, or nan (0 / 0) or inf (x / 0)
AchievementPct(net_sales, period_target) ==
    IF period_target # 0
    THEN [kind |-> "number", tenths |-> RoundDiv(net_sales * 1000, period_target)]
    ELSE IF net_sales = 0 THEN [kind |-> "nan", tenths |-> 0]
    ELSE [kind |-> "inf", tenths |-> 0]

\* ledger.groupby("ASIN")["net_sales"].sum() joined to one plan row,
\* fillna(0) where the ledger has no row of the ASIN
ActualOf(df, a) == SumNetSales(SelectSeq(df, LAMBDA r : r.ASIN = a))

\* asin_target_vs_actual(ledger, f, t), the workbooks being `plans`: the
\* table's rows, one of the two "<p>...</p>" texts, or the KeyError raised
asin_target_vs_actual(l, plans, f, t) ==
    Pick({
        IF df = <<>> THEN [kind |-> "text", text |-> "<p>No data</p>"]
        ELSE Pick({
            IF IsEmpty(plan) THEN [kind |-> "text", text |-> "<p>No planning data</p>"]
            ELSE IF ~HasCol(plan, perdaygoalprojected)
            THEN [kind |-> "KeyError", text |-> "perdaygoalprojected"]
            ELSE IF ~HasCol(plan, category)
            THEN [kind |-> "KeyError", text |-> "category"]
            ELSE [kind |-> "table",
                  rows |-> [r \in 1..Len(plan.rows) |->
                      Pick({ [ASIN |-> Cell(plan, r, asin),
                              Category |-> Cell(plan, r, category),
                              Target |-> Round1(period_target),
                              Actual |-> Round1(net_sales),
                              Achievement |-> AchievementPct(net_sales, period_target)]
                             : period_target \in
                                 {Cell(plan, r, perdaygoalprojected) * nunique_date(df)},
                               net_sales \in {ActualOf(df, Cell(plan, r, asin))} })]]
            : plan \in {load_planning_main(plans, f)} })
        : df \in {filter_by_date_range(l, f, t)} })

\* the values a caller passes as a date bound: a Timestamp, None, or a text
\* that is no date
Timestamp(d) == [kind |-> "Timestamp", at |-> d]

None == [kind |-> "None", at |-> NaT]

BadDate == [kind |-> "str", at |-> NaT]

\* the columns of the ledger frame
LedgerCols == {"date", "account", "ASIN", "sales", "net_sales"}

RECURSIVE MaxDate(_)
\* df["date"].max()
MaxDate(df) ==
    IF Len(df) = 1 THEN df[1].date
    ELSE Pick({ IF DateLE(m, df[1].date) THEN df[1].date ELSE m
                : m \in {MaxDate(Tail(df))} })

Raised == [kind |-> "raise"]

NoReport == [kind |-> "None"]

\* the reason text of a report
ReasonText(extra_asins, audio_array_b2b_rows, difference) ==
    IF extra_asins > 0 /\ audio_array_b2b_rows > 0
    THEN "Ledger contains ASINs not present in planning file. Historical Audio Array B2B rows detected."
    ELSE IF extra_asins > 0 THEN "Ledger contains ASINs not present in planning file."
    ELSE IF audio_array_b2b_rows > 0 THEN "Historical Audio Array B2B rows detected."
    ELSE IF difference # 0
    THEN "Difference due to partial month / missing days in selection."
    ELSE "All validations passed. Data is consistent."

\* the report of the rows df against the plan
ReportOf(df, plan) ==
    Pick({ [kind |-> "report",
            extra_asins |-> extra_asins,
            audio_array_b2b_rows |-> audio_array_b2b_rows,
            kpi_actual |-> kpi_actual,
            daywise_sum |-> day_sum,
            difference |-> Round1(kpi_actual - day_sum),
            reason |-> ReasonText(extra_asins, audio_array_b2b_rows,
                                  Round1(kpi_actual - day_sum))]
           : extra_asins \in
               {IF IsEmpty(plan) THEN 0
                ELSE Cardinality({ df[i].ASIN : i \in 1..Len(df) }
                                 \ { Cell(plan, r, asin) : r \in 1..Len(plan.rows) })},
             audio_array_b2b_rows \in
               {Len(SelectSeq(df, LAMBDA r :
                        r.account = "Nexlev" /\ r.sales # r.net_sales))},
             kpi_actual \in {Round1(SumNetSales(df))},
             day_sum \in {Round1(SumNetSales(groupby_date(df)))} })

\* the body of validation_summary inside its try: the report, None, or Raised
\* where a statement of the body raises; cols are the columns of the ledger
ValidationBody(l, cols, plans, f, t) ==
    IF f # None /\ t # None /\ ("date" \notin cols \/ BadDate \in {f, t}) THEN Raised
    ELSE Pick({
        IF df = <<>> THEN NoReport
        ELSE IF f = BadDate THEN Raised
        ELSE IF f = None /\ "date" \notin cols THEN Raised
        ELSE Pick({
            IF ~IsEmpty(plan) /\ "ASIN" \notin cols THEN Raised
            ELSE IF "account" \notin cols THEN Raised
            ELSE IF (\E i \in 1..Len(df) : df[i].account = "Nexlev")
                    /\ ~({"sales", "net_sales"} \subseteq cols) THEN Raised
            ELSE IF ~({"net_sales", "date"} \subseteq cols) THEN Raised
            ELSE ReportOf(df, plan)
            : plan \in {load_planning_main(plans,
                            IF f = None THEN MaxDate(df) ELSE f.at)} })
        : df \in {IF f # None /\ t # None
                  THEN filter_by_date_range(l, f.at, t.at) ELSE l} })

\* validation_summary without its except clause
validation_summary_uncaught(l, cols, plans, f, t) == ValidationBody(l, cols, plans, f, t)

\* validation_summary(ledger, f, t): except Exception: return None
validation_summary(l, cols, plans, f, t) ==
    IF ValidationBody(l, cols, plans, f, t) = Raised THEN NoReport
    ELSE ValidationBody(l, cols, plans, f, t)

-----------------------------------------------------------------------------
(* The category table *)

perdaygoal == <<"p","e","r","d","a","y","g","o","a","l">>

\* load_planning_category(ref_date), the workbooks being `plans`
load_planning_category(plans, ref_date) ==
    IF ref_date[1] \notin DOMAIN plans \/ ~plans[ref_date[1]].exists THEN empty_df
    ELSE Pick({ IF IsEmpty(df) THEN empty_df ELSE NormCols(df)
                : df \in {load_sheet(plans[ref_date[1]], "Category")} })

\* ledger["ASIN"].map(asin_category) = c: the last plan row of the ASIN has category c
CategoryIs(plan_main, a, c) ==
    \E r \in 1..Len(plan_main.rows) :
        /\ Cell(plan_main, r, asin) = a
        /\ Cell(plan_main, r, category) = c
        /\ \A q \in (r + 1)..Len(plan_main.rows) : Cell(plan_main, q, asin) # a

\* category_target_vs_actual(ledger, f, t), the workbooks being `plans`: the
\* table's rows, one of the two "<p>...</p>" texts, or the KeyError raised
category_target_vs_actual(l, plans, f, t) ==
    Pick({
        IF df = <<>> THEN [kind |-> "text", text |-> "<p>No data</p>"]
        ELSE Pick({
            IF IsEmpty(plan_main) \/ IsEmpty(plan_cat)
            THEN [kind |-> "text", text |-> "<p>No planning data</p>"]
            ELSE IF ~HasCol(plan_main, category)
            THEN [kind |-> "KeyError", text |-> "category"]
            ELSE IF ~HasCol(plan_cat, perdaygoal)
            THEN [kind |-> "KeyError", text |-> "perdaygoal"]
            ELSE IF ~HasCol(plan_cat, category)
            THEN [kind |-> "KeyError", text |-> "category"]
            ELSE [kind |-> "table",
                  rows |-> [r \in 1..Len(plan_cat.rows) |->
                      Pick({ [Category |-> Cell(plan_cat, r, category),
                              PerDayTarget |-> Round1(Cell(plan_cat, r, perdaygoal)),
                              Target |-> Round1(period_target),
                              Actual |-> Round1(net_sales),
                              Achievement |-> AchievementPct(net_sales, period_target)]
                             : period_target \in
                                 {Cell(plan_cat, r, perdaygoal) * nunique_date(df)},
                               net_sales \in
                                 {SumNetSales(SelectSeq(df, LAMBDA x :
                                     CategoryIs(plan_main, x.ASIN,
                                                Cell(plan_cat, r, category))))} })]]
            : plan_main \in {load_planning_main(plans, f)},
              plan_cat \in {load_planning_category(plans, f)} })
        : df \in {filter_by_date_range(l, f, t)} })

CategoryTargetVsActual(f, t) ==
    /\ out.op = "none"
    /\ out' = [op |-> "category_target_vs_actual", f |-> f, t |-> t,
               result |-> category_target_vs_actual(ledger, planning, f, t)]
    /\ UNCHANGED <<ledger, planning, last, lastWrite, msg, nUploads, nEdits>>

-----------------------------------------------------------------------------
(* The read side on its own: any ledger of a few rows, under any planning
   workbooks, read once by one of the dashboard's computations *)

\* the most rows a generated ledger holds
MaxRows == 2

\* the (account, ASIN) pairs of generated rows: a planned seller ASIN, a seller
\* ASIN no plan holds, a planned vendor ASIN
GenPairs ==
    << [account |-> "Nexlev", ASIN |-> <<"B","0","A">>],
       [account |-> "Nexlev", ASIN |-> <<"B","0","C">>],
       [account |-> "Vendor Central", ASIN |-> <<"B","0","B">>] >>

NumKeys == Len(GenPairs) * MaxMonth * MaxDay

\* the k-th natural key, pair by pair and date by date within a pair, with
\* the amounts build_rows gives a gross amount of 1003 + 111 k paise
GenRow(k) ==
    Pick({ [date |-> <<(((k - 1) % (MaxMonth * MaxDay)) \div MaxDay) + 1,
                       (((k - 1) % (MaxMonth * MaxDay)) % MaxDay) + 1>>,
            account |-> pair.account,
            ASIN |-> pair.ASIN,
            sales |-> 59 * (1003 + 111 * k),
            net_sales |-> NetSales(59 * (1003 + 111 * k),
                                   pair.account = "Vendor Central")]
           : pair \in {GenPairs[((k - 1) \div (MaxMonth * MaxDay)) + 1]} })

RECURSIVE IncreasingSeqs(_, _)
\* the increasing sequences of at most n numbers of lo..NumKeys
IncreasingSeqs(n, lo) ==
    IF n = 0 THEN {<<>>}
    ELSE {<<>>} \cup UNION { { <<k>> \o s : s \in IncreasingSeqs(n - 1, k + 1) }
                             : k \in lo..NumKeys }

\* ledgers of at most MaxRows rows, one row per natural key
Ledgers ==
    { [i \in 1..Len(s) |-> GenRow(s[i])] : s \in IncreasingSeqs(MaxRows, 1) }

\* the planning folder: the same workbook for every month, or the January
\* workbook for January and the February one for the others
ReadPlans ==
    { [m \in Months |-> wb] : wb \in Workbooks }
    \cup { [m \in Months |-> IF m = 1 THEN WbJan ELSE WbFeb] }

\* ref_date as render_dashboard passes it: the last day of a month's window
RefDates == { <<m, MaxDay>> : m \in Months }

\* (f, t) windows of the two tables: render_dashboard clamps a window that
\* spans two months to the month of ref_date
Windows == { w \in Dates \X Dates : w[1][1] = w[2][1] /\ w[1][2] <= w[2][2] }

\* (f, t) of validation_summary: a window inside a month, one across the
\* months, no bounds, one bound, a date that did not parse (NaT), a text that
\* is no date
ValidationBounds ==
    { <<Timestamp(w[1]), Timestamp(w[2])>> : w \in Windows }
    \cup { <<Timestamp(<<1, 1>>), Timestamp(<<MaxMonth, MaxDay>>)>>,
           <<None, None>>,
           <<None, Timestamp(<<1, 1>>)>>,
           <<Timestamp(<<1, 1>>), None>>,
           <<Timestamp(NaT), Timestamp(<<1, MaxDay>>)>>,
           <<BadDate, Timestamp(<<1, MaxDay>>)>>,
           <<Timestamp(<<1, 1>>), BadDate>>,
           <<BadDate, None>>,
           <<None, BadDate>> }

InitRead ==
    /\ ledger \in Ledgers
    /\ planning \in ReadPlans
    /\ last = NoCall
    /\ lastWrite = <<>>
    /\ msg = ""
    /\ nUploads = 0
    /\ nEdits = 0
    /\ out = [op |-> "none"]

CalculateKpis(ref_date) ==
    /\ out.op = "none"
    /\ out' = [op |-> "calculate_kpis", ref_date |-> ref_date,
               result |-> calculate_kpis(ledger, planning, ref_date)]
    /\ UNCHANGED <<ledger, planning, last, lastWrite, msg, nUploads, nEdits>>

DayWisePerformance(ref_date) ==
    /\ out.op = "none"
    /\ out' = [op |-> "day_wise_performance", ref_date |-> ref_date,
               result |-> day_wise_performance(ledger, planning, ref_date)]
    /\ UNCHANGED <<ledger, planning, last, lastWrite, msg, nUploads, nEdits>>

MtdChart(ref_date) ==
    /\ out.op = "none"
    /\ out' = [op |-> "mtd_chart", ref_date |-> ref_date,
               result |-> mtd_chart(ledger, planning, ref_date)]
    /\ UNCHANGED <<ledger, planning, last, lastWrite, msg, nUploads, nEdits>>

AsinTargetVsActual(f, t) ==
    /\ out.op = "none"
    /\ out' = [op |-> "asin_target_vs_actual", f |-> f, t |-> t,
               result |-> asin_target_vs_actual(ledger, planning, f, t)]
    /\ UNCHANGED <<ledger, planning, last, lastWrite, msg, nUploads, nEdits>>

ValidationSummary(cols, f, t) ==
    /\ out.op = "none"
    /\ out' = [op |-> "validation_summary", cols |-> cols, f |-> f, t |-> t,
               result |-> validation_summary(ledger, cols, planning, f, t)]
    /\ UNCHANGED <<ledger, planning, last, lastWrite, msg, nUploads, nEdits>>

NextRead ==
    \/ \E ref_date \in RefDates : CalculateKpis(ref_date)
    \/ \E ref_date \in RefDates : DayWisePerformance(ref_date)
    \/ \E ref_date \in RefDates : MtdChart(ref_date)
    \/ \E w \in Windows : AsinTargetVsActual(w[1], w[2])
    \/ \E w \in Windows : CategoryTargetVsActual(w[1], w[2])
    \/ \E b \in ValidationBounds : ValidationSummary(LedgerCols, b[1], b[2])
    \/ \E b \in {<<None, None>>, <<Timestamp(<<1, 1>>), Timestamp(<<1, MaxDay>>)>>} :
          ValidationSummary(LedgerCols \ {"net_sales"}, b[1], b[2])

SpecRead == InitRead /\ [][NextRead]_vars

-----------------------------------------------------------------------------
(* Claims about the read side *)

RECURSIVE SumSeq(_)
\* the sum of a sequence of numbers
SumSeq(s) == IF s = <<>> THEN 0 ELSE Head(s) + SumSeq(Tail(s))

\* the Main sheet of the workbook of a month's plan has an ASIN column
\* and the column `name`, both by normalized header, and holds rows
PlanHas(wb, name) ==
    /\ wb.exists
    /\ wb.Main.rows # <<>>
    /\ \E c \in 1..Len(wb.Main.cols) : norm(wb.Main.cols[c]) = asin
    /\ \E c \in 1..Len(wb.Main.cols) : norm(wb.Main.cols[c]) = name

\* the total of the column `name` over the Main sheet of a workbook
PlanTotal(wb, name) ==
    SumSeq([r \in 1..Len(wb.Main.rows) |->
              wb.Main.rows[r][CHOOSE c \in 1..Len(wb.Main.cols) :
                                  norm(wb.Main.cols[c]) = name]])

\* the distinct dates of the ledger
LedgerDates == { ledger[i].date : i \in 1..Len(ledger) }

\* the net sales of the ledger rows of the dates in D
NetOn(D) ==
    SumSeq([i \in 1..Len(ledger) |->
              IF ledger[i].date \in D THEN ledger[i].net_sales ELSE 0])

\* C5 as stated: for any non-empty ledger slice the 'actual' entries of
\* day_wise sum to the direct sum of net_sales, and the 'difference' of a
\* validation report is 0.
C5_AsStated ==
    /\ (out.op = "day_wise_performance" /\ ledger # <<>>) =>
          SumSeq([i \in 1..Len(out.result) |-> out.result[i].actual])
              = NetOn(LedgerDates)
    /\ (out.op = "validation_summary" /\ out.result.kind = "report") =>
          out.result.difference = 0

\* C5: for a non-empty ledger slice whose month's plan has a per-day target
\* column, day_wise returns one entry per distinct date and their 'actual'
\* values sum to the direct sum of net_sales; without that column it returns
\* no entries; the 'difference' of a validation report is always 0.
C5_DayWiseSumsToDirectSum ==
    /\ (out.op = "day_wise_performance" /\ ledger # <<>>) =>
          IF PlanHas(planning[out.ref_date[1]], perdaygoalprojected)
          THEN /\ Len(out.result) = Cardinality(LedgerDates)
               /\ SumSeq([i \in 1..Len(out.result) |-> out.result[i].actual])
                     = NetOn(LedgerDates)
               /\ \A i \in 1..Len(out.result) :
                     out.result[i].actual = NetOn({out.result[i].date})
          ELSE out.result = <<>>
    /\ (out.op = "validation_summary" /\ out.result.kind = "report") =>
          /\ out.result.difference = 0
          /\ out.result.kpi_actual = out.result.daywise_sum

\* C5 witness: two ledger rows of one date, summed into the one entry
\* day_wise returned
C5_Witness ==
    /\ out.op = "day_wise_performance"
    /\ Len(ledger) = 2
    /\ Len(out.result) = 1
    /\ out.result[1].actual = ledger[1].net_sales + ledger[2].net_sales

\* the dates of the ledger in ascending order are the sequence ds
IsAscending(ds) ==
    /\ { ds[i] : i \in 1..Len(ds) } = LedgerDates
    /\ Len(ds) = Cardinality(LedgerDates)
    /\ \A i \in 1..(Len(ds) - 1) : DateLE(ds[i], ds[i + 1])

\* the ledger's dates up to and including the date labelled as out.result.labels[i]
DatesThrough(i) ==
    { d \in LedgerDates : \E j \in 1..i : Label(d) = out.result.labels[j] }

\* the chart has one entry per distinct date of the ledger, ascending
OneEntryPerDate ==
    /\ Len(out.result.labels) = Cardinality(LedgerDates)
    /\ Len(out.result.actual) = Cardinality(LedgerDates)
    /\ Len(out.result.target) = Cardinality(LedgerDates)
    /\ \E ds \in [1..Cardinality(LedgerDates) -> LedgerDates] :
          /\ IsAscending(ds)
          /\ \A i \in 1..Len(ds) : out.result.labels[i] = Label(ds[i])

\* C6 as stated: with a per-day target available, mtd_chart returns one
\* entry per distinct date, ascending; actual[i] is the cumulative net_sales
\* through the i-th date and never decreases; target[0] is the per-day target
\* and target[i] = target[i-1] + per-day target.
C6_AsStated ==
    (/\ out.op = "mtd_chart"
     /\ ledger # <<>>
     /\ PlanHas(planning[out.ref_date[1]], perdaygoalprojected)) =>
        /\ OneEntryPerDate
        /\ \A i \in 1..Len(out.result.actual) :
              /\ out.result.actual[i] = NetOn(DatesThrough(i))
              /\ i > 1 => out.result.actual[i - 1] <= out.result.actual[i]
        /\ \A i \in 1..Len(out.result.target) :
              out.result.target[i] =
                  (IF i = 1 THEN 0 ELSE out.result.target[i - 1])
                  + PlanTotal(planning[out.ref_date[1]], perdaygoalprojected)

\* C6: with a per-day target available, mtd_chart returns one entry per
\* distinct date, ascending; actual[i] is the cumulative net_sales through the
\* i-th date rounded to one decimal, and never decreases; target[i] is
\* (i+1) times the per-day target rounded to one decimal, whatever the gap
\* between the dates.
C6_MtdChartRoundedSeries ==
    (/\ out.op = "mtd_chart"
     /\ ledger # <<>>
     /\ PlanHas(planning[out.ref_date[1]], perdaygoalprojected)) =>
        /\ OneEntryPerDate
        /\ \A i \in 1..Len(out.result.actual) :
              /\ out.result.actual[i] = Round1(NetOn(DatesThrough(i)))
              /\ i > 1 => out.result.actual[i - 1] <= out.result.actual[i]
        /\ \A i \in 1..Len(out.result.target) :
              out.result.target[i] =
                  Round1(i * PlanTotal(planning[out.ref_date[1]], perdaygoalprojected))

\* C6 witness: a ledger of 1 January and 2 February charted against the
\* January plan, whose per-day target is 100.04: the targets are 100.0 and
\* 200.1
C6_Witness ==
    /\ out.op = "mtd_chart"
    /\ planning[out.ref_date[1]] = WbJan
    /\ LedgerDates = {<<1, 1>>, <<2, 2>>}
    /\ out.result.labels = <<Label(<<1, 1>>), Label(<<2, 2>>)>>
    /\ out.result.target = <<590 * 1000, 590 * 2001>>

\* the ledger rows inside the window of the asin_target_vs_actual call
InWindow == SelectSeq(ledger, LAMBDA r : DateLE(out.f, r.date) /\ DateLE(r.date, out.t))

\* the ASINs of the Main sheet of a workbook, in the order of its rows
PlanAsinSeq(wb) ==
    [r \in 1..Len(wb.Main.rows) |->
        Strip(Upper(Str(wb.Main.rows[r][CHOOSE c \in 1..Len(wb.Main.cols) :
                                            norm(wb.Main.cols[c]) = asin])))]

\* C7: given a non-empty filtered ledger and a non-empty plan,
\* asin_target_vs_actual returns a table with one row per ASIN of the plan and
\* no other; a planned ASIN without ledger rows in the window has Actual 0 and
\* Achievement % 0.
C7_EveryPlannedAsinListed ==
    (/\ out.op = "asin_target_vs_actual"
     /\ InWindow # <<>>
     /\ PlanHas(planning[out.f[1]], asin)) =>
        /\ out.result.kind = "table"
        /\ [r \in 1..Len(out.result.rows) |-> out.result.rows[r].ASIN]
              = PlanAsinSeq(planning[out.f[1]])
        /\ \A r \in 1..Len(out.result.rows) :
              (\A i \in 1..Len(InWindow) : InWindow[i].ASIN # out.result.rows[r].ASIN)
                  => /\ out.result.rows[r].Actual = 0
                     /\ out.result.rows[r].Achievement = [kind |-> "number", tenths |-> 0]

\* the snapshot conditions of calculate_kpis: rows in the slice, a plan for
\* the month, and both target columns in it
KpiInputsPresent ==
    /\ ledger # <<>>
    /\ PlanHas(planning[out.ref_date[1]], perdaygoalprojected)
    /\ PlanHas(planning[out.ref_date[1]],
               Lower(MonthAbbr[out.ref_date[1]]) \o goalprojected)

\* C8: calculate_kpis never returns an undefined ratio; achievement and pace
\* are equal, actual / target_till_date when target_till_date > 0 and 0
\* otherwise, target_till_date being the plan's per-day total times the
\* number of distinct dates; with an empty slice, an empty plan or a plan
\* lacking one of the two target columns all five fields are 0.
C8_KpisNeverUndefined ==
    out.op = "calculate_kpis" =>
        /\ out.result.achievement = out.result.pace
        /\ out.result.achievement.den # 0
        /\ KpiInputsPresent =>
              /\ out.result.target_till =
                    Round1(PlanTotal(planning[out.ref_date[1]], perdaygoalprojected)
                           * Cardinality(LedgerDates))
              /\ out.result.actual = Round1(NetOn(LedgerDates))
              /\ out.result.monthly_target =
                    Round1(PlanTotal(planning[out.ref_date[1]],
                                     Lower(MonthAbbr[out.ref_date[1]]) \o goalprojected))
              /\ out.result.achievement =
                    (IF PlanTotal(planning[out.ref_date[1]], perdaygoalprojected)
                            * Cardinality(LedgerDates) > 0
                     THEN [num |-> NetOn(LedgerDates),
                           den |-> PlanTotal(planning[out.ref_date[1]], perdaygoalprojected)
                                      * Cardinality(LedgerDates)]
                     ELSE [num |-> 0, den |-> 1])
        /\ ~KpiInputsPresent =>
              out.result = [monthly_target |-> 0, target_till |-> 0, actual |-> 0,
                            achievement |-> [num |-> 0, den |-> 1],
                            pace |-> [num |-> 0, den |-> 1]]

\* C8 witness: a plan with both target columns whose per-day targets are all
\* zero, under a ledger with sales: the target till date is 0, the actual is
\* not, and the ratios are 0
C8_Witness ==
    /\ out.op = "calculate_kpis"
    /\ planning[out.ref_date[1]] = WbZero
    /\ Len(ledger) = 2
    /\ out.result.target_till = 0
    /\ out.result.actual > 0
    /\ out.result.achievement = [num |-> 0, den |-> 1]

\* the rows validation_summary is left with after its filter
ValidatedRows ==
    IF out.f.kind # "None" /\ out.t.kind # "None"
    THEN SelectSeq(ledger, LAMBDA r :
             /\ out.f.kind = "Timestamp" /\ out.f.at # NaT
             /\ out.t.kind = "Timestamp" /\ out.t.at # NaT
             /\ DateLE(out.f.at, r.date) /\ DateLE(r.date, out.t.at))
    ELSE ledger

\* a fault inside validation_summary: a bound that is no date where the code
\* uses it, or a ledger frame without its net_sales column
ValidationFault ==
    \/ out.f.kind = "str"
    \/ out.t.kind = "str" /\ out.f.kind # "None"
    \/ ValidatedRows # <<>> /\ "net_sales" \notin out.cols

\* C10: validation_summary leaves the ledger unchanged and never raises: it
\* returns None when the filtered ledger is empty or a fault occurs inside it,
\* and otherwise a report with all six fields.
C10_ValidationReadOnlyTotal ==
    [][ out'.op = "validation_summary" =>
          /\ ledger' = ledger
          /\ out'.result.kind \in {"report", "None"}
          /\ \A rows \in {ValidatedRows'}, fault \in {ValidationFault'} :
                /\ (rows = <<>> \/ fault) => out'.result = [kind |-> "None"]
                /\ (rows # <<>> /\ ~fault) =>
                      /\ out'.result.kind = "report"
                      /\ DOMAIN out'.result =
                            {"kind", "extra_asins", "audio_array_b2b_rows",
                             "kpi_actual", "daywise_sum", "difference", "reason"}
      ]_vars

\* C10 witness: a ledger with rows validated with a from-bound that is no
\* date: None came back
C10_Witness ==
    /\ out.op = "validation_summary"
    /\ ledger # <<>>
    /\ out.cols = LedgerCols
    /\ out.f = BadDate
    /\ out.t = None
    /\ out.result = NoReport

-----------------------------------------------------------------------------
(* The per-channel batches of one upload concatenated in any order *)

\* the orders in which the four slots can be taken
Orders ==
    { o \in [1..Len(uploads) -> 1..Len(uploads)] :
        \A i, j \in 1..Len(uploads) : i # j => o[i] # o[j] }

\* pd.concat(all_rows) with the batches taken in the order `order`
ConcatIn(built, order) ==
    built[order[1]].rows \o built[order[2]].rows
        \o built[order[3]].rows \o built[order[4]].rows

\* log_sales with the batches concatenated in the order `order`: the ledger it
\* leaves and the message it renders
log_sales_in(l, plans, u, order) ==
    IF Strip(u.upload_key) # ADMIN_UPLOAD_KEY
    THEN [ledger |-> l, msg |-> "Invalid admin upload key."]
    ELSE IF to_datetime(u.sales_date) = NaT
    THEN [ledger |-> l, msg |-> "Invalid sales date."]
    ELSE Pick({
        IF \E i \in 1..Len(uploads) : built[i].raised
        THEN [ledger |-> l, msg |-> "Unexpected server error."]
        ELSE IF ConcatIn(built, order) = <<>>
        THEN [ledger |-> l, msg |-> "No valid sales rows found."]
        ELSE [ledger |-> save_ledger(IF ReplaceDayOn(u.replace_day)
                                     THEN DeleteDay(l, sales_date_parsed)
                                     ELSE l,
                                     ConcatIn(built, order)),
              msg |-> "Sales uploaded successfully."]
        : built \in {BuiltRows(plans, u)},
          sales_date_parsed \in {to_datetime(u.sales_date)} })

\* uploads with files in several slots, the same export in two slots included
OrderFileSets ==
    { <<SellerA, SellerB, NoFile, VendorA>>,
      <<SellerB, SellerA, SellerA, VendorA>> }

OrderUploads ==
    { Upload(Key1234, DateText(d), r, f) :
        d \in Dates, r \in {"None", "on"}, f \in OrderFileSets }

\* the planning folder: the January workbook for every month, or the
\* February one for the months after January
OrderPlans ==
    { [m \in Months |-> WbJan], [m \in Months |-> IF m = 1 THEN WbJan ELSE WbFeb] }

InitOrder ==
    /\ ledger \in Ledgers
    /\ planning \in OrderPlans
    /\ last = NoCall
    /\ lastWrite = <<>>
    /\ msg = ""
    /\ nUploads = 0
    /\ nEdits = 0
    /\ out = [op |-> "none"]

LogSalesIn(u, order) ==
    /\ out.op = "none"
    /\ \E res \in {log_sales_in(ledger, planning, u, order)} :
          /\ ledger' = res.ledger
          /\ msg' = res.msg
    /\ out' = [op |-> "log_sales", upload |-> u, order |-> order, before |-> ledger]
    /\ nUploads' = nUploads + 1
    /\ UNCHANGED <<planning, last, lastWrite, nEdits>>

NextOrder == \E u \in OrderUploads, order \in Orders : LogSalesIn(u, order)

SpecOrder == InitOrder /\ [][NextOrder]_vars

\* the rows of a ledger, as the table holds them
RowSet(l) == { l[i] : i \in 1..Len(l) }

\* C11: whatever the order in which the batches of the channels are
\* concatenated, the ledger after the upload holds the rows it holds when they
\* are concatenated in the order of the slots.
C11_ConcatOrderIrrelevant ==
    out.op = "log_sales" =>
        /\ RowSet(ledger) = RowSet(log_sales(out.before, planning, out.upload).ledger)
        /\ Len(ledger) = Len(log_sales(out.before, planning, out.upload).ledger)

\* C11 witness: three channels uploaded onto a ledger with rows, the vendor
\* batch first and the first seller batch last, and the rows are saved
C11_Witness ==
    /\ out.op = "log_sales"
    /\ out.before # <<>>
    /\ out.upload.files = <<SellerA, SellerB, NoFile, VendorA>>
    /\ out.order = <<4, 3, 2, 1>>
    /\ msg = Success
    /\ Len(ledger) >= 4
    /\ ledger # log_sales(out.before, planning, out.upload).ledger

\* C12: in the ASIN table and in the category table a row whose period target
\* is 0 has an Achievement % that is a number, never nan or inf.
C12_ZeroTargetSpecialCased ==
    (/\ out.op \in {"asin_target_vs_actual", "category_target_vs_actual"}
     /\ out.result.kind = "table") =>
        \A r \in 1..Len(out.result.rows) :
            out.result.rows[r].Target = 0 =>
                out.result.rows[r].Achievement.kind = "number"

\* C13: build_rows does not raise on a revenue cell that is no number: an
\* in-plan line with such a cell yields a row of its ASIN with sales 0.
C13_BadCellDegradesToZero ==
    out.op = "build_rows" =>
        /\ ~out.result.raised
        /\ \A k \in 1..Len(DataLinesOf(out.file, out.is_vendor)),
              c, a \in 1..Len(HeaderOf(out.file, out.is_vendor)) :
              (/\ out.file.filename \in {"csv", "txt", "xlsx", "xls"}
               /\ norm(HeaderOf(out.file, out.is_vendor)[c])
                     = (IF out.is_vendor THEN orderedrevenue ELSE orderedproductsales)
               /\ clean_money_raises(DataLinesOf(out.file, out.is_vendor)[k][c])
               /\ norm(HeaderOf(out.file, out.is_vendor)[a]) = asin
               /\ Strip(Upper(Str(DataLinesOf(out.file, out.is_vendor)[k][a])))
                     \in PlanAsinsOf(planning[out.sales_date[1]]))
              => \E i \in 1..Len(out.result.rows) :
                    /\ out.result.rows[i].sales = 0
                    /\ out.result.rows[i].ASIN
                          = Strip(Upper(Str(DataLinesOf(out.file, out.is_vendor)[k][a])))

-----------------------------------------------------------------------------
(* Claims about rejected uploads and about what an upload persists *)

\* C14: an upload with a wrong key, a sales date that does not parse, or files
\* that yield no valid rows leaves the ledger as it was, with replace-day set
\* as well.
C14_RejectedUploadNoEffect ==
    [][ (/\ nUploads' = nUploads + 1
         /\ \/ Strip(last'.upload.upload_key) # Key1234
            \/ to_datetime(last'.upload.sales_date) = NaT
            \/ msg' = "No valid sales rows found.")
        => /\ ledger' = ledger
           /\ msg' \in {"Invalid admin upload key.", "Invalid sales date.",
                        "No valid sales rows found."}
      ]_vars

\* C14 witness: a replace-day upload without files was rejected while the
\* ledger holds rows of its sales date
C14_Witness ==
    /\ msg = "No valid sales rows found."
    /\ ReplaceDayOn(last.upload.replace_day)
    /\ \E i \in 1..Len(ledger) : ledger[i].date = to_datetime(last.upload.sales_date)

\* C15: after a replace-day upload the net_sales of the ledger rows of
\* (sales_date, account) sum to the net_sales of the rows build_rows returned
\* for the account, for each account with a file.
C15_NoRevenueLost ==
    (/\ msg = Success
     /\ ReplaceDayOn(last.upload.replace_day)
     /\ last.planning = planning) =>
        \A i \in 1..Len(uploads) :
            last.upload.files[i].filename # "" =>
                SumNetSales(SelectSeq(ledger, LAMBDA r :
                    /\ r.date = to_datetime(last.upload.sales_date)
                    /\ r.account = uploads[i].account))
                = SumNetSales(build_rows(last.planning, last.upload.files[i],
                                         uploads[i].account,
                                         to_datetime(last.upload.sales_date),
                                         uploads[i].is_vendor).rows)

====
